---- MODULE Spec2Model ----
(***************************************************************************)
(* Model of examples/pencil_drawing/pencil_drawing.cpp of the lime         *)
(* library: orientation quantization, noise composition, the line integral *)
(* convolution kernel (LIConv) and the level-of-detail compositor.         *)
(*                                                                         *)
(* Numbers.  Angles are integers in units of tau/t_disc = pi/144, the step *)
(* of LIConv's angle loop.  Real quantities are fixed point: distances of  *)
(* the distance transform in 1/65536 (OpenCV's own fixed point), cosines   *)
(* in 1/CosOne, Gaussian weights in 1/GaussOne, edge strengths in          *)
(* 1/EdgeOne, tones in 1/ToneOne, anchor coordinates in 1/2^FracBits.      *)
(* A pixel is <<y, x>>, as in cv::Mat::at(y, x).                           *)
(***************************************************************************)
EXTENDS Integers, Sequences, FiniteSets, TLC

VARIABLES
    \* quantizeOrientation
    qpc, qdim, edge, vfield0, vfield, uedge, distmap,
    \* pencilDrawing (noise composition and the call of LIConv)
    ppc, pdim, points, noise, ratio, licArg,
    \* pencilDrawingLOD
    lpc, ldim, lpoints, level, l, out,
    \* LIConv: one row of the parallel loop over x
    cin, crow, rng, wpc, wread, wti, lic,
    \* LIConv: the sample march of one output pixel
    mpc, min, mpix, mti, mt, ms, s_sum, w_sum, sum, weight, sample, mout

qvars == <<qpc, qdim, edge, vfield0, vfield, uedge, distmap>>
pvars == <<ppc, pdim, points, noise, ratio, licArg>>
lvars == <<lpc, ldim, lpoints, level, l, out>>
cvars == <<cin, crow, rng, wpc, wread, wti, lic>>
mvars == <<mpc, min, mpix, mti, mt, ms, s_sum, w_sum, sum, weight, sample, mout>>
vars == <<qvars, pvars, lvars, cvars, mvars>>

----------------------------------------------------------------------------
\* Program constants (pencil_drawing.cpp:8-15)
t_disc == 24
s_disc == 24
n == 2
S == 7
sigma_1 == 4
sigma_2 == 2

\* tau = pi/6 is t_disc angle units; pi and pi/4 in the same units
TauUnits == t_disc
PiUnits == 6 * TauUnits
QuarterPi == PiUnits \div 4

----------------------------------------------------------------------------
\* Bounds of the model
QMaxSide == 2       \* small images of quantizeOrientation are up to QMaxSide x QMaxSide
QWide == 100        \* a one-row image wide enough for a threshold above one pixel
PMaxSide == 3       \* images of pencilDrawing are up to PMaxSide x PMaxSide
MaxAnchors == 2     \* anchor points per call
MaxLevels == 3      \* largest level count of pencilDrawingLOD
CMaxWidth == 2      \* widest row of the parallel loop (one worker per pixel)
MMaxSide == 2       \* the sample march runs in 1x1 and MMaxSide x MMaxSide images

----------------------------------------------------------------------------
\* Helpers
Max2(a, b) == IF a >= b THEN a ELSE b
Min2(a, b) == IF a <= b THEN a ELSE b
Abs(a) == IF a >= 0 THEN a ELSE -a
SetMin(T) == CHOOSE m \in T : \A k \in T : m <= k
CeilDiv(a, b) == -((-a) \div b)
Pixels(w, h) == (0 .. h - 1) \X (0 .. w - 1)

\* cvRound of the non-negative rational num/den: nearest integer, ties to even
CvRound(num, den) ==
    LET q == num \div den
        r == num % den
    IN  IF 2 * r < den THEN q
        ELSE IF 2 * r > den THEN q + 1
        ELSE IF q % 2 = 0 THEN q ELSE q + 1

----------------------------------------------------------------------------
\* quantizeOrientation (pencil_drawing.cpp:30-59)

EdgeOne == 1000

\* edge.convertTo(uedge, CV_8UC1, 255.0): saturate_cast<uchar>(cvRound(v * 255))
ConvertTo8U(v) == Min2(255, Max2(0, CvRound(v * 255, EdgeOne)))

\* Binarize with the two values exchanged
BinarizeInverted(u) == IF u < 192 THEN 1 ELSE 0

\* lines 41-45: below 192 becomes 0, the rest 1
Binarize(u) == IF u < 192 THEN 0 ELSE 1

\* cv::distanceTransform(uedge, distmap, DIST_L2, 3): the 3x3 chamfer
\* transform, in OpenCV's 16-bit fixed point (0.955 and 1.3693 per step),
\* capped at DistMax when the mask holds no zero.
HV_DIST == 62587
DIAG_DIST == 89738
DistMax == 536870911
DistOne == 65536

ChamferDist(p, z) ==
    LET dy == Abs(p[1] - z[1])
        dx == Abs(p[2] - z[2])
    IN  HV_DIST * (Max2(dx, dy) - Min2(dx, dy)) + DIAG_DIST * Min2(dx, dy)

DistanceTransform(mask, w, h) ==
    LET zeros == {z \in Pixels(w, h) : mask[z] = 0}
    IN  [p \in Pixels(w, h) |->
            SetMin({DistMax} \cup {ChamferDist(p, z) : z \in zeros})]

\* line 33 and line 53: distmap(y,x) > max(width, height) / 50.0
FarFromEdge(d, w, h) == d > (Max2(w, h) * DistOne) \div 50

\* QuantizeAngle with floor for ceil
QuantizeAngleFloor(theta) == (theta \div PiUnits) * PiUnits - QuarterPi

\* line 55: ceil(theta / q_t) * q_t + q_s with q_t = pi, q_s = -pi/4
QuantizeAngle(theta) == CeilDiv(theta, PiUnits) * PiUnits - QuarterPi

\* Inputs: the image extent, the edge strengths and the flow angles
QDims == ((1 .. QMaxSide) \X (1 .. QMaxSide)) \cup {<<QWide, 1>>}
QCandidates(w, h) ==
    IF w <= QMaxSide THEN Pixels(w, h)
    ELSE {<<0, 0>>, <<0, 1>>, <<0, 3>>, <<0, w - 1>>}
EdgeLow == {0, 750}
EdgeHigh == {751, 1000}
AngleBases == {-PiUnits - 10, -QuarterPi, 0, PiUnits - QuarterPi, PiUnits + 50}
AngleSteps == {0, 37}

QInputs ==
    /\ qdim \in QDims
    /\ \E Z \in SUBSET QCandidates(qdim[1], qdim[2]) :
       \E lo \in EdgeLow : \E hi \in EdgeHigh :
          edge = [p \in Pixels(qdim[1], qdim[2]) |-> IF p \in Z THEN lo ELSE hi]
    /\ \E a \in AngleBases : \E d \in AngleSteps :
          vfield0 = [p \in Pixels(qdim[1], qdim[2]) |-> a + d * (p[1] + p[2])]

QEntry ==
    /\ qpc = "convert"
    /\ QInputs
    /\ vfield = vfield0
    /\ uedge = [p \in Pixels(qdim[1], qdim[2]) |-> 0]
    /\ distmap = [p \in Pixels(qdim[1], qdim[2]) |-> 0]

\* lines 37-47: convert to 8 bit and binarize
QBinarize ==
    /\ qpc = "convert"
    /\ uedge' = [p \in Pixels(qdim[1], qdim[2]) |-> Binarize(ConvertTo8U(edge[p]))]
    /\ qpc' = "distance"
    /\ UNCHANGED <<qdim, edge, vfield0, vfield, distmap>>
    /\ UNCHANGED <<pvars, lvars, cvars, mvars>>

\* lines 49-50
QDistance ==
    /\ qpc = "distance"
    /\ distmap' = DistanceTransform(uedge, qdim[1], qdim[2])
    /\ qpc' = "snap"
    /\ UNCHANGED <<qdim, edge, vfield0, vfield, uedge>>
    /\ UNCHANGED <<pvars, lvars, cvars, mvars>>

\* lines 51-58
QSnap ==
    /\ qpc = "snap"
    /\ vfield' = [p \in Pixels(qdim[1], qdim[2]) |->
                    IF FarFromEdge(distmap[p], qdim[1], qdim[2])
                    THEN QuantizeAngle(vfield[p])
                    ELSE vfield[p]]
    /\ qpc' = "done"
    /\ UNCHANGED <<qdim, edge, vfield0, uedge, distmap>>
    /\ UNCHANGED <<pvars, lvars, cvars, mvars>>

QIdle ==
    /\ qpc = "idle"
    /\ qdim = <<1, 1>>
    /\ edge = [p \in Pixels(1, 1) |-> 0]
    /\ vfield0 = [p \in Pixels(1, 1) |-> 0]
    /\ vfield = vfield0
    /\ uedge = edge
    /\ distmap = edge

----------------------------------------------------------------------------
\* pencilDrawing (pencil_drawing.cpp:120-165): the noise field and its ratio

\* Anchor coordinates are floats; the model keeps FracBits fractional bits,
\* enough for half-pixel inputs scaled down by every level of the pyramid.
FracBits == MaxLevels
CoordOne == 2 ^ FracBits

\* (int)v of lines 156-157: truncation toward zero
TruncInt(c) == IF c >= 0 THEN c \div CoordOne ELSE -((-c) \div CoordOne)

\* lines 156-157: a point is <<x, y>>, its pixel <<py, px>>
AnchorPixel(pt) == <<TruncInt(pt[2]), TruncInt(pt[1])>>

\* lines 154-158: zeros, then a filled 1x1 rectangle of value 1 per point
\* (cv::rectangle clips to the image)
StampAnchors(w, h, P) ==
    [p \in Pixels(w, h) |->
        IF \E i \in 1 .. Len(P) : AnchorPixel(P[i]) = p THEN 1 ELSE 0]

\* AnchorRatio with the factor 1.5 of the dense branch
AnchorRatioDense(w, h, k) == <<15 * k, 10 * (w * h)>>

\* A ratio is the rational <<numerator, denominator>>.
\* line 159: 1.2 * nNoise / (width * height)
AnchorRatio(w, h, k) == <<12 * k, 10 * (w * h)>>

\* line 148: (int)(0.2 * (double)(width * height))
DenseCount(w, h) == (2 * (w * h)) \div 10

\* line 150: (int)(0.3 * width * height)
DenseRequest(w, h) == (3 * (w * h)) \div 10

\* line 151: 1.5 * nNoise / (width * height)
DenseRatio(w, h) == <<15 * DenseCount(w, h), 10 * (w * h)>>

\* npr::uniformNoise(noise, gray, count): some field with at most count cells set
UniformNoise(w, h, count) ==
    {[p \in Pixels(w, h) |-> IF p \in On THEN 1 ELSE 0] :
        On \in {T \in SUBSET Pixels(w, h) : Cardinality(T) <= count}}

\* lines 146-161: the ratio of a call, by the branch taken
PRatio(w, h, P) ==
    IF P = <<>> THEN DenseRatio(w, h) ELSE AnchorRatio(w, h, Len(P))

\* Inputs: the extent and the anchors (0, 1/2, w - 1/2 and, out of bounds, w)
AnchorCoords(side) ==
    {0, CoordOne \div 2, side * CoordOne - CoordOne \div 2, side * CoordOne}
AnchorSeqs(w, h) ==
    UNION {[1 .. k -> AnchorCoords(w) \X AnchorCoords(h)] : k \in 0 .. MaxAnchors}

PEntry ==
    /\ ppc = "noise"
    /\ pdim \in (1 .. PMaxSide) \X (1 .. PMaxSide)
    /\ points \in AnchorSeqs(pdim[1], pdim[2])
    /\ noise = [p \in Pixels(pdim[1], pdim[2]) |-> 0]
    /\ ratio = <<1, 1>>
    /\ licArg = [called |-> FALSE, noise |-> noise, ratio |-> ratio]

\* lines 147-151
PNoiseDense ==
    /\ ppc = "noise"
    /\ points = <<>>
    /\ noise' \in UniformNoise(pdim[1], pdim[2], DenseRequest(pdim[1], pdim[2]))
    /\ ratio' = DenseRatio(pdim[1], pdim[2])
    /\ ppc' = "conv"
    /\ UNCHANGED <<pdim, points, licArg>>
    /\ UNCHANGED <<qvars, lvars, cvars, mvars>>

\* lines 152-161
PNoiseAnchors ==
    /\ ppc = "noise"
    /\ points # <<>>
    /\ noise' = StampAnchors(pdim[1], pdim[2], points)
    /\ ratio' = AnchorRatio(pdim[1], pdim[2], Len(points))
    /\ ppc' = "conv"
    /\ UNCHANGED <<pdim, points, licArg>>
    /\ UNCHANGED <<qvars, lvars, cvars, mvars>>

\* line 164: LIConv(out, img, vfield, noise, ratio)
PConvolve ==
    /\ ppc = "conv"
    /\ licArg' = [called |-> TRUE, noise |-> noise, ratio |-> ratio]
    /\ ppc' = "done"
    /\ UNCHANGED <<pdim, points, noise, ratio>>
    /\ UNCHANGED <<qvars, lvars, cvars, mvars>>

PIdle ==
    /\ ppc = "idle"
    /\ pdim = <<1, 1>>
    /\ points = <<>>
    /\ noise = [p \in Pixels(1, 1) |-> 0]
    /\ ratio = <<1, 1>>
    /\ licArg = [called |-> FALSE, noise |-> noise, ratio |-> ratio]

----------------------------------------------------------------------------
\* pencilDrawingLOD (pencil_drawing.cpp:167-194)

\* ScaleDen with the exponent l for l - 1
ScaleDenOff(lv) == 2 ^ lv

\* line 176: scale = 1.0 / pow(2.0, l - 1), kept as its denominator
ScaleDen(lv) == 2 ^ (lv - 1)

\* line 178: cv::resize(img, I, Size(), scale, scale): each side is
\* saturate_cast<int>(side * scale), rounded to nearest
ResizeDims(dim, den) == <<CvRound(dim[1], den), CvRound(dim[2], den)>>

\* lines 183-184: q = points[i] * scale
ScalePoint(pt, den) == <<pt[1] \div den, pt[2] \div den>>

\* lines 180-186
ScalePoints(P, den) == [i \in 1 .. Len(P) |-> ScalePoint(P[i], den)]

\* lines 176-190: the image one level adds: pencilDrawing(I, O, P) on the
\* resized input and the scaled points, resized to the original extent
LevelResult(dim, P, lv) ==
    LET den == ScaleDen(lv)
        I == ResizeDims(dim, den)
        Q == ScalePoints(P, den)
    IN  [scale |-> <<1, den>>, cols |-> I[1], rows |-> I[2], anchors |-> Q,
         stamped |-> {p \in Pixels(I[1], I[2]) : StampAnchors(I[1], I[2], Q)[p] = 1},
         ratio |-> PRatio(I[1], I[2], Q),
         outCols |-> dim[1], outRows |-> dim[2]]

\* Inputs.  cv::resize rejects an empty target, so the images are those
\* every level can scale down: sides from the largest scale denominator up.
MinSide == 2 ^ (MaxLevels - 1)
LDims == {<<MinSide, MinSide>>, <<MinSide + 1, MinSide>>}

LEntry ==
    /\ lpc = "start"
    /\ ldim \in LDims
    /\ lpoints \in AnchorSeqs(ldim[1], ldim[2])
    /\ level \in -1 .. MaxLevels
    /\ l = 0
    /\ out = [exists |-> FALSE, terms |-> <<>>, divided |-> FALSE, div |-> 1]

\* line 174 and the loop's initialisation
LODBegin ==
    /\ lpc = "start"
    /\ out' = [exists |-> TRUE, terms |-> <<>>, divided |-> FALSE, div |-> 1]
    /\ l' = level
    /\ lpc' = "loop"
    /\ UNCHANGED <<ldim, lpoints, level>>
    /\ UNCHANGED <<qvars, pvars, cvars, mvars>>

\* lines 175-192: one iteration
LODLevel ==
    /\ lpc = "loop"
    /\ l >= 1
    /\ out' = [out EXCEPT !.terms = Append(@, LevelResult(ldim, lpoints, l))]
    /\ l' = l - 1
    /\ UNCHANGED <<lpc, ldim, lpoints, level>>
    /\ UNCHANGED <<qvars, pvars, cvars, mvars>>

\* line 193: out = out / (float)level
LODFinish ==
    /\ lpc = "loop"
    /\ l < 1
    /\ out' = [out EXCEPT !.divided = TRUE, !.div = level]
    /\ lpc' = "done"
    /\ UNCHANGED <<ldim, lpoints, level, l>>
    /\ UNCHANGED <<qvars, pvars, cvars, mvars>>

LIdle ==
    /\ lpc = "idle"
    /\ ldim = <<1, 1>>
    /\ lpoints = <<>>
    /\ level = 1
    /\ l = 0
    /\ out = [exists |-> FALSE, terms |-> <<>>, divided |-> FALSE, div |-> 1]

----------------------------------------------------------------------------
\* LIConv (pencil_drawing.cpp:61-118): the kernel of one output pixel

CosOne == 1000000
ToneOne == 2
GaussOne == 1000

\* cos(k * pi/144) * CosOne for k = 0 .. 72
CosTable ==
    <<1000000, 999762, 999048, 997859, 996195, 994056, 991445, 988362,
      984808, 980785, 976296, 971342, 965926, 960050, 953717, 946930,
      939693, 932008, 923880, 915311, 906308, 896873, 887011, 876727,
      866025, 854912, 843391, 831470, 819152, 806445, 793353, 779884,
      766044, 751840, 737277, 722364, 707107, 691513, 675590, 659346,
      642788, 625923, 608761, 591310, 573576, 555570, 537300, 518773,
      500000, 480989, 461749, 442289, 422618, 402747, 382683, 362438,
      342020, 321439, 300706, 279829, 258819, 237686, 216440, 195090,
      173648, 152123, 130526, 108867, 87156, 65403, 43619, 21815, 0>>

\* cos and sin of lines 91-92, of an angle in units of pi/144
Cos(a) ==
    LET r == a % (2 * PiUnits)
        h == PiUnits \div 2
    IN  IF r <= h THEN CosTable[r + 1]
        ELSE IF r <= PiUnits THEN -CosTable[PiUnits - r + 1]
        ELSE IF r <= PiUnits + h THEN -CosTable[r - PiUnits + 1]
        ELSE CosTable[2 * PiUnits - r + 1]
Sin(a) == Cos(a - PiUnits \div 2)

\* exp(-k/16) * GaussOne for k = 0 .. 121; smaller values round to 0
GaussTable ==
    <<1000, 939, 882, 829, 779, 732, 687, 646, 607, 570, 535, 503, 472, 444,
      417, 392, 368, 346, 325, 305, 287, 269, 253, 238, 223, 210, 197, 185,
      174, 163, 153, 144, 135, 127, 119, 112, 105, 99, 93, 87, 82, 77, 72,
      68, 64, 60, 56, 53, 50, 47, 44, 41, 39, 36, 34, 32, 30, 28, 27, 25, 24,
      22, 21, 19, 18, 17, 16, 15, 14, 13, 13, 12, 11, 10, 10, 9, 9, 8, 8, 7,
      7, 6, 6, 6, 5, 5, 5, 4, 4, 4, 4, 3, 3, 3, 3, 3, 2, 2, 2, 2, 2, 2, 2, 2,
      2, 1, 1, 1, 1, 1, 1, 1, 1, 1, 1, 1, 1, 1, 1, 1, 1, 1>>

\* gauss(x, sigma) of math_utils.h: exp(-x^2 / (2 sigma^2)), the exponent
\* num/den cut to sixteenths (den is a multiple of 16)
Gauss(num, den) ==
    LET k == num \div (den \div 16)
    IN  IF k < Len(GaussTable) THEN GaussTable[k + 1] ELSE 0

\* line 96: gauss(dI, sigma_2), dI a tone difference in 1/ToneOne
G2(dI) == Gauss(dI * dI, 2 * sigma_2 * sigma_2 * ToneOne * ToneOne)

\* line 102: gauss(t_i - theta, sigma_1), the difference in units of pi/144
\* (pi^2 taken as 987/100)
G1(dT) == Gauss(dT * dT * 987, 100 * PiUnits * PiUnits * 2 * sigma_1 * sigma_1)

\* line 84: tau / n * (k - n) for the draw k of randInt(2n + 1)
Jitter(k) == (TauUnits * (k - n)) \div n

\* line 86: tau / t_disc * t + etf(y, x)
Theta(in, pix, t) == t + in.etf[pix]

\* lines 90-92: (int)(c + scale * trig) with scale = S / s_disc * s; the
\* position is the rational PosNum / PosDen and the cast truncates toward zero
PosDen == s_disc * CosOne
PosNum(c, trig, s) == c * PosDen + S * s * trig
TruncDiv(num, den) == IF num >= 0 THEN num \div den ELSE -((-num) \div den)
SampleXX(x, theta, s) == TruncDiv(PosNum(x, Cos(theta), s), PosDen)
SampleYY(y, theta, s) == TruncDiv(PosNum(y, Sin(theta), s), PosDen)

\* InImage with a strict lower bound on xx
InImageStrict(xx, yy, w, h) == xx > 0 /\ yy >= 0 /\ xx < w /\ yy < h

\* line 93
InImage(xx, yy, w, h) == xx >= 0 /\ yy >= 0 /\ xx < w /\ yy < h

Zeros(dim) == [c \in 1 .. dim |-> 0]

\* lines 91-100: what sample s of angle theta adds to s_sum and w_sum
SampleAdd(in, pix, theta, s) ==
    LET xx == SampleXX(pix[2], theta, s)
        yy == SampleYY(pix[1], theta, s)
    IN  IF InImage(xx, yy, in.w, in.h)
        THEN [s |-> [c \in 1 .. in.dim |->
                        G2(in.bilateral[<<yy, xx>>][c] - in.bilateral[pix][c])
                        * in.noise[<<yy, xx>>]
                        * (ToneOne - in.bilateral[pix][c])],
              w |-> [c \in 1 .. in.dim |->
                        G2(in.bilateral[<<yy, xx>>][c] - in.bilateral[pix][c])]]
        ELSE [s |-> Zeros(in.dim), w |-> Zeros(in.dim)]

\* lines 87-101: the s-loop of one angle, from sample s on
RECURSIVE SLoop(_, _, _, _)
SLoop(in, pix, theta, s) ==
    IF s > s_disc THEN [s |-> Zeros(in.dim), w |-> Zeros(in.dim)]
    ELSE LET a == SampleAdd(in, pix, theta, s)
             r == SLoop(in, pix, theta, s + 1)
         IN  [s |-> [c \in 1 .. in.dim |-> a.s[c] + r.s[c]],
              w |-> [c \in 1 .. in.dim |-> a.w[c] + r.w[c]]]

\* lines 85-107: the t-loop, from angle step t on
RECURSIVE TLoop(_, _, _, _)
TLoop(in, pix, ti, t) ==
    IF t > t_disc THEN [sum |-> Zeros(in.dim), weight |-> Zeros(in.dim)]
    ELSE LET theta == Theta(in, pix, t)
             a == SLoop(in, pix, theta, -s_disc)
             g == G1(ti - theta)
             r == TLoop(in, pix, ti, t + 1)
         IN  [sum |-> [c \in 1 .. in.dim |-> g * a.s[c] + r.sum[c]],
              weight |-> [c \in 1 .. in.dim |-> g * a.w[c] + r.weight[c]]]

\* lines 109-111: 1 - sum[c] / (ratio * weight[c]), kept as its three
\* operands; the quotient is not finite when ratio * weight[c] is 0
OutValue(acc, rat) ==
    [set |-> TRUE, sum |-> acc.sum, weight |-> acc.weight, ratio |-> rat]
Unset == [set |-> FALSE, sum |-> <<>>, weight |-> <<>>, ratio |-> <<1, 1>>]

\* lines 79-111 for one pixel
LICPixel(in, pix, ti) == OutValue(TLoop(in, pix, ti, -t_disc), in.ratio)

\* Inputs of LIConv: the extent, the channel count, the smoothed tones, the
\* flow angles, the noise and the ratio
LICInput(w, h, dim, a, d, nb) ==
    [w |-> w, h |-> h, dim |-> dim,
     bilateral |-> [p \in Pixels(w, h) |->
                      [c \in 1 .. dim |-> (p[1] + 2 * p[2] + c) % (ToneOne + 1)]],
     etf |-> [p \in Pixels(w, h) |-> a + d * (p[1] + p[2])],
     noise |-> [p \in Pixels(w, h) |-> (p[1] + p[2] + nb) % 2],
     ratio |-> <<3, 10>>]

----------------------------------------------------------------------------
\* LIConv: the rows, each a parallel loop over x (lines 75-117)

\* lime::Random: a generator holding a state that every draw advances
RngMod == 8
RandNext(s) == (5 * s + 3) % RngMod

\* rand.randInt(m): the advanced state reduced to 0 .. m-1
RandInt(s, m) == RandNext(s) % m

Workers == 0 .. cin.w - 1

CInputs ==
    {LICInput(w, h, 1, a, 0, 0) : w \in 2 .. CMaxWidth, h \in 1 .. 2, a \in {0, -QuarterPi}}

CEntry ==
    /\ cin \in CInputs
    /\ crow = 0
    /\ rng \in {0, 1}
    /\ wpc = [x \in 0 .. cin.w - 1 |-> "draw"]
    /\ wread = [x \in 0 .. cin.w - 1 |-> 0]
    /\ wti = [x \in 0 .. cin.w - 1 |-> 0]
    /\ lic = [p \in Pixels(cin.w, cin.h) |-> Unset]

\* line 84, first half: the worker of pixel x reads the generator's state
WRandRead(x) ==
    /\ wpc[x] = "draw"
    /\ wread' = [wread EXCEPT ![x] = rng]
    /\ wpc' = [wpc EXCEPT ![x] = "advance"]
    /\ UNCHANGED <<cin, crow, rng, wti, lic>>
    /\ UNCHANGED <<qvars, pvars, lvars, mvars>>

\* line 84, second half: it stores the advanced state and takes its draw
WRandWrite(x) ==
    /\ wpc[x] = "advance"
    /\ rng' = RandNext(wread[x])
    /\ wti' = [wti EXCEPT ![x] = Jitter(RandInt(wread[x], 2 * n + 1))]
    /\ wpc' = [wpc EXCEPT ![x] = "march"]
    /\ UNCHANGED <<cin, crow, wread, lic>>
    /\ UNCHANGED <<qvars, pvars, lvars, mvars>>

\* lines 85-111: the loops over t and s, and the store of lic(y, x, c)
WConvolve(x) ==
    /\ wpc[x] = "march"
    /\ lic' = [lic EXCEPT ![<<crow, x>>] = LICPixel(cin, <<crow, x>>, wti[x])]
    /\ wpc' = [wpc EXCEPT ![x] = "done"]
    /\ UNCHANGED <<cin, crow, rng, wread, wti>>
    /\ UNCHANGED <<qvars, pvars, lvars, mvars>>

\* lines 77 and 113-116: the row's workers have joined; the next row starts
CNextRow ==
    /\ \A x \in Workers : wpc[x] = "done"
    /\ crow + 1 < cin.h
    /\ crow' = crow + 1
    /\ wpc' = [x \in Workers |-> "draw"]
    /\ UNCHANGED <<cin, rng, wread, wti, lic>>
    /\ UNCHANGED <<qvars, pvars, lvars, mvars>>

CIdle ==
    /\ cin = LICInput(1, 1, 1, 0, 0, 0)
    /\ crow = 0
    /\ rng = 0
    /\ wpc = [x \in 0 .. 0 |-> "idle"]
    /\ wread = [x \in 0 .. 0 |-> 0]
    /\ wti = [x \in 0 .. 0 |-> 0]
    /\ lic = [p \in Pixels(1, 1) |-> Unset]

----------------------------------------------------------------------------
\* LIConv: the sample march of one output pixel, sample by sample

MInputs ==
    {LICInput(d[1], d[2], dim, a, 0, nb) :
        d \in {<<1, 1>>, <<MMaxSide, MMaxSide>>}, dim \in 1 .. 2,
        a \in {0, 50}, nb \in {0, 1}}

NoSample == [t |-> 0, s |-> 0, px |-> 0, py |-> 0, xx |-> 0, yy |-> 0,
             counted |-> FALSE, taken |-> FALSE]

MEntry ==
    /\ mpc = "march"
    /\ min \in MInputs
    /\ mpix \in Pixels(min.w, min.h)
    /\ mti \in {Jitter(k) : k \in {0, n, 2 * n}}
    /\ mt = -t_disc
    /\ ms = -s_disc
    /\ s_sum = Zeros(min.dim)
    /\ w_sum = Zeros(min.dim)
    /\ sum = Zeros(min.dim)
    /\ weight = Zeros(min.dim)
    /\ sample = NoSample
    /\ mout = Unset

\* lines 89-100: one sample of the s-loop
MSample ==
    /\ mpc = "march"
    /\ ms <= s_disc
    /\ LET theta == Theta(min, mpix, mt)
           xx == SampleXX(mpix[2], theta, ms)
           yy == SampleYY(mpix[1], theta, ms)
           a == SampleAdd(min, mpix, theta, ms)
       IN  /\ s_sum' = [c \in 1 .. min.dim |-> s_sum[c] + a.s[c]]
           /\ w_sum' = [c \in 1 .. min.dim |-> w_sum[c] + a.w[c]]
           /\ sample' = [t |-> mt, s |-> ms,
                         px |-> PosNum(mpix[2], Cos(theta), ms),
                         py |-> PosNum(mpix[1], Sin(theta), ms),
                         xx |-> xx, yy |-> yy,
                         counted |-> InImage(xx, yy, min.w, min.h),
                         taken |-> TRUE]
    /\ ms' = ms + 1
    /\ UNCHANGED <<mpc, min, mpix, mti, mt, sum, weight, mout>>
    /\ UNCHANGED <<qvars, pvars, lvars, cvars>>

\* lines 102-106, and lines 85-88 of the next angle
MAngle ==
    /\ mpc = "march"
    /\ ms > s_disc
    /\ LET g == G1(mti - Theta(min, mpix, mt))
       IN  /\ sum' = [c \in 1 .. min.dim |-> sum[c] + g * s_sum[c]]
           /\ weight' = [c \in 1 .. min.dim |-> weight[c] + g * w_sum[c]]
    /\ mt' = mt + 1
    /\ ms' = -s_disc
    /\ s_sum' = Zeros(min.dim)
    /\ w_sum' = Zeros(min.dim)
    /\ mpc' = IF mt + 1 > t_disc THEN "store" ELSE "march"
    /\ UNCHANGED <<min, mpix, mti, sample, mout>>
    /\ UNCHANGED <<qvars, pvars, lvars, cvars>>

\* lines 109-111
MStore ==
    /\ mpc = "store"
    /\ mout' = OutValue([sum |-> sum, weight |-> weight], min.ratio)
    /\ mpc' = "done"
    /\ UNCHANGED <<min, mpix, mti, mt, ms, s_sum, w_sum, sum, weight, sample>>
    /\ UNCHANGED <<qvars, pvars, lvars, cvars>>

MIdle ==
    /\ mpc = "idle"
    /\ min = LICInput(1, 1, 1, 0, 0, 0)
    /\ mpix = <<0, 0>>
    /\ mti = 0
    /\ mt = 0
    /\ ms = 0
    /\ s_sum = Zeros(1)
    /\ w_sum = Zeros(1)
    /\ sum = Zeros(1)
    /\ weight = Zeros(1)
    /\ sample = NoSample
    /\ mout = Unset

----------------------------------------------------------------------------
\* The specifications, one per function

QuantInit == QEntry /\ PIdle /\ LIdle /\ CIdle /\ MIdle
QuantNext == QBinarize \/ QDistance \/ QSnap
SpecQuant == QuantInit /\ [][QuantNext]_vars

NoiseInit == QIdle /\ PEntry /\ LIdle /\ CIdle /\ MIdle
NoiseNext == PNoiseDense \/ PNoiseAnchors \/ PConvolve
SpecNoise == NoiseInit /\ [][NoiseNext]_vars

LODInit == QIdle /\ PIdle /\ LEntry /\ CIdle /\ MIdle
LODNext == LODBegin \/ LODLevel \/ LODFinish
SpecLOD == LODInit /\ [][LODNext]_vars

RowInit == QIdle /\ PIdle /\ LIdle /\ CEntry /\ MIdle
RowNext ==
    \/ \E x \in Workers : WRandRead(x)
    \/ \E x \in Workers : WRandWrite(x)
    \/ \E x \in Workers : WConvolve(x)
    \/ CNextRow
SpecRow == RowInit /\ [][RowNext]_vars

MarchInit == QIdle /\ PIdle /\ LIdle /\ CIdle /\ MEntry
MarchNext == MSample \/ MAngle \/ MStore
SpecMarch == MarchInit /\ [][MarchNext]_vars

Init == QuantInit \/ NoiseInit \/ LODInit \/ RowInit \/ MarchInit
Next == QuantNext \/ NoiseNext \/ LODNext \/ RowNext \/ MarchNext
Spec == Init /\ [][Next]_vars

----------------------------------------------------------------------------
\* Properties

\* C1: under every interleaving of a row's workers, nothing a worker
\* touches besides its own lic(y, x, c) is modified during the loop: the
\* random generator stays as it was, and no two workers are ever inside a
\* read-modify-write of the same state at once.
C1_WorkersShareOnlyReadOnlyState ==
    [][/\ rng' = rng
       /\ \A x1, x2 \in Workers :
            (wpc'[x1] = "advance" /\ wpc'[x2] = "advance") => x1 = x2]_vars

\* C2: for levels >= 1 the pipeline runs once per l = levels .. 1, in that
\* order, on the input resized by 1/2^(l-1) with every anchor coordinate
\* multiplied by that scale; each result is resized to width x height and
\* the sum is divided by levels; with levels = 1 the one run is the
\* single-scale run on the unscaled input and anchors.
C2_RunOf(T, lv) ==
    LET den == 2 ^ (lv - 1)
    IN  /\ T.scale = <<1, den>>
        /\ Abs(2 * den * T.cols - 2 * ldim[1]) <= den
        /\ Abs(2 * den * T.rows - 2 * ldim[2]) <= den
        /\ Len(T.anchors) = Len(lpoints)
        /\ \A j \in 1 .. Len(lpoints) :
              /\ T.anchors[j][1] * den = lpoints[j][1]
              /\ T.anchors[j][2] * den = lpoints[j][2]
        /\ T.ratio = PRatio(T.cols, T.rows, T.anchors)
        /\ T.outCols = ldim[1]
        /\ T.outRows = ldim[2]
C3_Far(p) == distmap[p] > (Max2(qdim[1], qdim[2]) * DistOne) \div 50
C3_Snapped(theta, new) ==
    \E k \in (theta \div PiUnits) - 1 .. (theta \div PiUnits) + 1 :
        /\ k * PiUnits >= theta
        /\ (k - 1) * PiUnits < theta
        /\ 4 * new = 4 * k * PiUnits - PiUnits
C3_QuantizeExactlyFar ==
    qpc = "done" =>
        \A p \in Pixels(qdim[1], qdim[2]) :
            /\ C3_Far(p) => C3_Snapped(vfield0[p], vfield[p])
            /\ ~C3_Far(p) => vfield[p] = vfield0[p]
            /\ vfield[p] # vfield0[p] => C3_Far(p)
C3_Witness ==
    /\ qpc = "done"
    /\ \E p \in Pixels(qdim[1], qdim[2]) : C3_Far(p) /\ vfield[p] # vfield0[p]
    /\ \E p \in Pixels(qdim[1], qdim[2]) :
          ~C3_Far(p) /\ distmap[p] > 0 /\ vfield[p] = vfield0[p]

\* C4: with k >= 1 anchors, all inside the image and on k distinct pixels,
\* the ratio is 1.2 k / (width * height) and the noise field handed to LIConv
\* is 1 at each anchor's pixel and 0 elsewhere: exactly k nonzero cells.
C4_InBounds(pt) ==
    /\ 0 <= pt[1] /\ pt[1] < pdim[1] * CoordOne
    /\ 0 <= pt[2] /\ pt[2] < pdim[2] * CoordOne
C4_Floor(pt) == <<pt[2] \div CoordOne, pt[1] \div CoordOne>>
C4_Pre ==
    /\ points # <<>>
    /\ \A i \in 1 .. Len(points) : C4_InBounds(points[i])
    /\ \A i, j \in 1 .. Len(points) :
          C4_Floor(points[i]) = C4_Floor(points[j]) => i = j
C4_AnchorRatioAndNoise ==
    (licArg.called /\ C4_Pre) =>
        /\ licArg.ratio[1] * (10 * pdim[1] * pdim[2]) = 12 * Len(points) * licArg.ratio[2]
        /\ Cardinality({p \in Pixels(pdim[1], pdim[2]) : licArg.noise[p] # 0}) = Len(points)
        /\ \A p \in Pixels(pdim[1], pdim[2]) :
              licArg.noise[p] =
                 IF \E i \in 1 .. Len(points) : C4_Floor(points[i]) = p THEN 1 ELSE 0
C4_Witness ==
    /\ licArg.called
    /\ C4_Pre
    /\ Len(points) >= 2
    /\ \E i \in 1 .. Len(points) : points[i][1] % CoordOne # 0

\* C5: with no anchors the ratio is 0.3 for every width >= 1 and height >= 1.
C5_DenseRatioIsThreeTenths ==
    (ppc \in {"conv", "done"} /\ points = <<>>) => 10 * ratio[1] = 3 * ratio[2]

\* C6: the ratio passed to LIConv, a divisor of the output formula, is
\* strictly positive in every call.
C6_RatioPositive ==
    licArg.called => (licArg.ratio[1] > 0 /\ licArg.ratio[2] > 0)

\* C7 as stated: on an edge map that is 1 everywhere, quantizeOrientation
\* leaves every angle unchanged.
C7_AllOnesUnchanged ==
    (qpc = "done" /\ \A p \in Pixels(qdim[1], qdim[2]) : edge[p] = EdgeOne)
        => vfield = vfield0

\* C7 amended: on an edge map that is 0 everywhere (every pixel a zero of the
\* edge mask, every distance 0), quantizeOrientation leaves every angle
\* unchanged; on a map that is 1 everywhere the mask holds no zero and every
\* angle is snapped to ceil(theta/pi) * pi - pi/4.
C7_AllZerosUnchanged ==
    qpc = "done" =>
        /\ (\A p \in Pixels(qdim[1], qdim[2]) : edge[p] = 0) => vfield = vfield0
        /\ (\A p \in Pixels(qdim[1], qdim[2]) : edge[p] = EdgeOne) =>
              \A p \in Pixels(qdim[1], qdim[2]) : C3_Snapped(vfield0[p], vfield[p])
C7_Witness ==
    /\ qpc = "done"
    /\ \A p \in Pixels(qdim[1], qdim[2]) : edge[p] = 0
    /\ Cardinality(Pixels(qdim[1], qdim[2])) > 1
    /\ \E p \in Pixels(qdim[1], qdim[2]) : vfield0[p] % PiUnits # PiUnits - QuarterPi

\* C8: a call with levels <= 0 is a fatal error at call time; no output
\* image is produced.
C8_NonPositiveLevelsRejected ==
    level <= 0 => ~(lpc = "done" /\ out.exists)

\* C9: a sample whose position lies outside [0, width) x [0, height) adds
\* nothing to s_sum and w_sum, and every sample that adds reads at an index
\* with 0 <= xx < width and 0 <= yy < height.
C9_Outside ==
    \/ sample.px < 0 \/ sample.px >= min.w * PosDen
    \/ sample.py < 0 \/ sample.py >= min.h * PosDen
C9_OutsideSamplesSkipped ==
    sample.taken =>
        /\ C9_Outside => ~sample.counted
        /\ sample.counted =>
              /\ 0 <= sample.xx /\ sample.xx < min.w
              /\ 0 <= sample.yy /\ sample.yy < min.h

\* C10: the s = 0 sample of every angle lands on the pixel itself and is
\* counted, so after the s-loop w_sum[c] >= Gaussian(0) > 0, and with
\* positive G1 weights weight[c] > 0 once the t-loop is over.
C10_G1Positive ==
    \A t \in -t_disc .. t_disc : G1(mti - Theta(min, mpix, t)) > 0
C10_CentreSampleCounted ==
    /\ G2(0) > 0
    /\ (sample.taken /\ sample.s = 0) =>
          (sample.xx = mpix[2] /\ sample.yy = mpix[1] /\ sample.counted)
    /\ (mpc = "march" /\ ms > s_disc) =>
          \A c \in 1 .. min.dim : w_sum[c] >= G2(0)
    /\ (mpc \in {"store", "done"} /\ C10_G1Positive) =>
          \A c \in 1 .. min.dim : weight[c] > 0
    /\ (mpc = "done" /\ C10_G1Positive) =>
          \A c \in 1 .. min.dim : mout.weight[c] > 0
C10_Witness ==
    /\ mpc = "done"
    /\ min.w = 1 /\ min.h = 1
    /\ C10_G1Positive
    /\ mout.weight[1] > 0

====
